---- MODULE Spec2Model ----
(***************************************************************************)
(* Model of the ShineMonitor ESS API client (shinemonitor-pwa/js/api.js)   *)
(* and of the storage helpers of utils.js it relies on.                    *)
(*                                                                         *)
(* JavaScript runs the client on one thread: a handler runs without        *)
(* interruption up to its first `await`, and the continuation of an        *)
(* `await` runs without interruption too.  Each such segment is one        *)
(* action.  The server, the network and localStorage are the environment:  *)
(* their outcomes are chosen with \E.                                      *)
(***************************************************************************)
EXTENDS Integers, Sequences, FiniteSets, TLC

\* ------------------------------------------------------------------ bounds
\* number of API calls (login or request) started in one behaviour
MaxCalls == 2
\* last value of the millisecond clock (Date.now())
MaxClock == 2

\* --------------------------------------------------------- JavaScript values
Null == [t |-> "null"]
Undefined == [t |-> "undefined"]
StrV(s) == [t |-> "string", v |-> s]
NumV(n) == [t |-> "number", v |-> n]
ObjV(f) == [t |-> "object", f |-> f]
ArrV(a) == [t |-> "array", a |-> a]
NaN == [t |-> "nan"]
BoolV(b) == [t |-> "boolean", v |-> b]

\* the empty object {}
EmptyObj == [k \in {} |-> Null]

\* ToBoolean: the test of `if (v)`, `a && b`, `a || b`, `!!v`
Truthy(v) ==
    CASE v.t = "string" -> v.v # ""
      [] v.t = "number" -> v.v # 0
      [] v.t = "object" -> TRUE
      [] v.t = "array" -> TRUE
      [] v.t = "boolean" -> v.v
      [] OTHER -> FALSE

Digits == <<"0", "1", "2", "3", "4", "5", "6", "7", "8", "9">>

\* Number.prototype.toString() of a non-negative integer
RECURSIVE DecStr(_)
DecStr(n) == IF n < 10 THEN Digits[n + 1]
             ELSE DecStr(n \div 10) \o Digits[(n % 10) + 1]

\* ToString: the coercion applied by `+` on strings and by URLSearchParams
ToStr(v) ==
    CASE v.t = "string" -> v.v
      [] v.t = "number" -> DecStr(v.v)
      [] v.t = "null" -> "null"
      [] v.t = "undefined" -> "undefined"
      [] OTHER -> "[object Object]"

\* property read obj.k of a plain object held as a function key -> value
Get(f, k) == IF k \in DOMAIN f THEN f[k] ELSE Undefined

\* object spread { ...a, ...b }: the keys of b override those of a
Spread(a, b) ==
    [k \in (DOMAIN a) \cup (DOMAIN b) |-> IF k \in DOMAIN b THEN b[k] ELSE a[k]]

\* JSON.parse(JSON.stringify(o)) of a plain object: stringify leaves out the
\* properties whose value is undefined, parse gives the others back
JSONRoundTrip(f) == [k \in {j \in DOMAIN f : f[j] # Undefined} |-> f[k]]

\* ----------------------------------------------------------------- state
VARIABLES
    token,          \* API.token
    secret,         \* API.secret
    authTime,       \* API.authTime
    localStorage,   \* browser localStorage: key -> NoItem or the stored JSON
    now,            \* the clock read by Date.now()
    calls,          \* the API calls started so far, in order of their start
    wire,           \* the HTTP requests handed to fetch, in order
    returned,       \* the call that returned last and the value it returned
    baseURL,        \* API.baseURL
    refreshInterval,    \* Dashboard.refreshInterval (ms)
    autoRefreshTimer,   \* Dashboard.autoRefreshTimer: null or the interval timer
    lastDataCache,  \* Dashboard.lastDataCache: serial number -> last data
    currentView,    \* App.currentView
    autoRefreshEnabled, \* App.autoRefreshEnabled
    hidden,         \* document.hidden
    tasks           \* the runs of Dashboard.refresh started so far

vars == <<token, secret, authTime, localStorage, now, calls, wire, returned,
          baseURL, refreshInterval, autoRefreshTimer, lastDataCache,
          currentView, autoRefreshEnabled, hidden, tasks>>

\* the state of the page outside the session: the base URL, the dashboard
\* and the views
pageVars == <<baseURL, refreshInterval, autoRefreshTimer, lastDataCache,
              currentView, autoRefreshEnabled, hidden, tasks>>

session == <<token, secret, authTime>>

\* localStorage.getItem(key) of a key that is not stored
NoItem == [t |-> "noitem"]

\* a stored text that is not JSON
InvalidItem == [t |-> "invalid"]

StorageKeys ==
    {"api_credentials", "settings_refresh_interval", "settings_theme",
     "settings_notifications", "settings_api_base_url"}


\* property read v.k on any value that is not null or undefined
Prop(v, k) == IF v.t = "object" THEN Get(v.f, k) ELSE Undefined

\* a || b
OrElse(a, b) == IF Truthy(a) THEN a ELSE b

\* ------------------------------------------------------------ Utils (utils.js)
\* Utils.getLocalStorage(key, defaultValue): the parsed item, or the default
\* when the key is not stored or JSON.parse throws on what is stored
getLocalStorage(key, defaultValue) ==
    IF localStorage[key] \in {NoItem, InvalidItem} THEN defaultValue
    ELSE localStorage[key]

\* setLocalStorage that returns without writing
setLocalStorageSkips(key, value, ok) == localStorage

\* Utils.setLocalStorage(key, value): localStorage after the call.  setItem
\* stores JSON.stringify(value); when it throws (ok = FALSE: quota exceeded,
\* storage disabled) the exception is caught and nothing is stored.
setLocalStorage(key, value, ok) ==
    IF ok
    THEN [localStorage EXCEPT
             ![key] = IF value.t = "object" THEN ObjV(JSONRoundTrip(value.f))
                      ELSE value]
    ELSE localStorage

\* removeLocalStorage that returns without removing
removeLocalStorageSkips(key, ok) == localStorage

\* Utils.removeLocalStorage(key): localStorage after the call; a throwing
\* removeItem (ok = FALSE) is caught and leaves the item in place
removeLocalStorage(key, ok) ==
    IF ok THEN [localStorage EXCEPT ![key] = NoItem] ELSE localStorage

\* Utils.toQueryString(params): URLSearchParams turns every value into a string
toQueryString(params) == [k \in DOMAIN params |-> ToStr(params[k])]

\* -------------------------------------------------------------- API (api.js)
VendorBaseURL == "http://android.shinemonitor.com/public/"
companyKey == "bnrl_frRFjEz8Mkn"

\* CryptoJS.SHA1(data).toString().toLowerCase(): the digest is taken as an
\* injective function of the one string it is given
SHA1(data) == "sha1(" \o data \o ")"

\* API.generateSignature(salt, token, secret)
generateSignature(salt, tok, sec) == SHA1(salt \o ToStr(tok) \o ToStr(sec))

\* API.isAuthenticated()
isAuthenticated == Truthy(token) /\ Truthy(secret)

\* API.buildParams(params) with Date.now() = t
buildParams(params, t) ==
    LET salt == DecStr(t)
        sign == generateSignature(salt, token, secret)
        baseParams == [sign |-> StrV(sign),
                       salt |-> StrV(salt),
                       token |-> token,
                       i18n |-> StrV("en_US"),
                       lang |-> StrV("en_US"),
                       source |-> StrV("android"),
                       _app_client_ |-> StrV("android"),
                       _app_id_ |-> StrV("com.eybond.smartclient.ess"),
                       _app_version_ |-> StrV("3.43.0.1")]
    IN Spread(baseParams, params)

\* the state API.init() leaves in <<token, secret, authTime>> when it finds
\* `stored` under 'api_credentials', starting from the fields' values cur
initSession(stored, cur) ==
    IF Truthy(Prop(stored, "token")) /\ Truthy(Prop(stored, "secret"))
    THEN <<Prop(stored, "token"), Prop(stored, "secret"), Prop(stored, "authTime")>>
    ELSE cur

\* `stored.token` of API.init() throws a TypeError: stored is null
initThrows(stored) == stored \in {Null, Undefined}

\* the message of that TypeError
InitErrorMessage == "Cannot read properties of null (reading 'token')"

\* ------------------------------------------------------------- environment
Emails == {"user@example.com"}
Passwords == {"secret"}

\* the err codes the server answers with: 0 is success; the vendor's
\* token-invalid codes are not named in the client, 2 stands for them
ErrCodes == {0, 1, 2}
TokenInvalidCodes == {2}

\* the description the server gives with an err code
DescOf(err) ==
    CASE err = 0 -> StrV("ok")
      [] err \in TokenInvalidCodes -> StrV("token invalid")
      [] OTHER -> StrV("invalid credentials")

\* the desc of an answer: the description of its err code, or none
Descs(err) == {Undefined, DescOf(err)}

\* a JSON object received from the server: no undefined-valued property
JSONObj(f) == ObjV(JSONRoundTrip(f))

\* payloads (dat) of a login response: none, null, or an object with all or
\* some of token, secret, userid
LoginPayloads ==
    {Undefined, Null,
     JSONObj([token |-> StrV("T1"), secret |-> StrV("S1"), userid |-> StrV("U1")]),
     JSONObj([token |-> StrV("T2"), secret |-> StrV("S2"), userid |-> StrV("U2")]),
     JSONObj([token |-> StrV("T2"), secret |-> Undefined, userid |-> StrV("U2")]),
     JSONObj([token |-> Undefined, secret |-> StrV("S2"), userid |-> Undefined])}

\* payloads of the answers to signed requests
DataPayloads == {Null, StrV("data")}

Envelope(err, desc, dat) == JSONObj([err |-> NumV(err), desc |-> desc, dat |-> dat])

\* what the awaited fetch / response.json() of a call can produce
NetError == [kind |-> "neterr"]
Timeout == [kind |-> "timeout"]
BadJSON == [kind |-> "badjson"]
Json(data) == [kind |-> "json", data |-> data]

\* the outcomes of a call whose success envelopes (err = 0) carry a payload
\* of `payloads` and whose failure envelopes carry one of `failPayloads`
Outcomes(payloads, failPayloads) ==
    {NetError, Timeout, BadJSON, Json(Null), Json(NumV(5))} \cup
    UNION {{Json(Envelope(e, d, p)) :
              d \in Descs(e), p \in IF e = 0 THEN payloads ELSE failPayloads} :
           e \in ErrCodes}

\* a login answer of any shape; a failure envelope has a null payload or,
\* oddly, one that holds a session
LoginOutcomes ==
    Outcomes(LoginPayloads,
             {Null, JSONObj([token |-> StrV("T2"), secret |-> StrV("S2"),
                             userid |-> StrV("U2")])})

\* the answers to signed requests
RequestOutcomes == Outcomes(DataPayloads, {Null})

\* error.message of the exception a failed await throws
ErrorMessage(out) ==
    CASE out.kind = "neterr" -> "Failed to fetch"
      [] out.kind = "timeout" -> "Request timeout"
      [] out.kind = "badjson" -> "Unexpected token < in JSON at position 0"
      [] OTHER -> "Cannot read properties of null (reading 'err')"

Pending(id, op) ==
    /\ id \in 1..Len(calls)
    /\ calls[id].op = op
    /\ calls[id].status = "pending"

\* ------------------------------------------------------------------ Init
\* the refresh period Dashboard starts with (ms)
InitialRefreshInterval == 30000

\* the scripts have been loaded: the fields of API, Dashboard and App have
\* their literal values, the page is visible, no refresh has run
PageLoaded ==
    /\ baseURL = VendorBaseURL
    /\ refreshInterval = InitialRefreshInterval
    /\ autoRefreshTimer = Null
    /\ lastDataCache = EmptyObj
    /\ currentView = "login"
    /\ autoRefreshEnabled = TRUE
    /\ hidden = FALSE
    /\ tasks = <<>>

\* the credentials a login of an earlier run of the page has left in storage
EarlierCredentials ==
    ObjV([token |-> StrV("T1"), secret |-> StrV("S1"), authTime |-> NumV(0),
          userid |-> StrV("U1"), email |-> StrV("user@example.com")])

\* The page has been loaded: the fields of API have their literal values
\* (null) and API.init() (the last line of api.js) has read the storage.
Init ==
    /\ localStorage \in {[k \in StorageKeys |->
                             IF k = "api_credentials" THEN c ELSE NoItem] :
                          c \in {NoItem, EarlierCredentials}}
    /\ LET s == initSession(getLocalStorage("api_credentials", ObjV(EmptyObj)),
                            <<Null, Null, Null>>)
       IN token = s[1] /\ secret = s[2] /\ authTime = s[3]
    /\ now = 1
    /\ calls = <<>>
    /\ wire = <<>>
    /\ returned = [call |-> 0]
    /\ PageLoaded

\* what can be found under 'api_credentials' at load: nothing, a text that
\* is not JSON, JSON of another shape (null, a number, an empty object), a
\* record lacking the secret or the token, or the record of a login
StoredContents ==
    {NoItem, InvalidItem, Null, NumV(5), ObjV(EmptyObj),
     ObjV([token |-> StrV("T1"), authTime |-> NumV(0)]),
     ObjV([secret |-> StrV("S1"), authTime |-> NumV(0)]),
     EarlierCredentials}

\* The page has been loaded over any stored content: API.init() has run on
\* the literal (null) fields, and has thrown where it throws.
InitLoad ==
    /\ localStorage \in {[k \in StorageKeys |->
                             IF k = "api_credentials" THEN c ELSE NoItem] :
                          c \in StoredContents}
    /\ LET stored == getLocalStorage("api_credentials", ObjV(EmptyObj))
           s == IF initThrows(stored) THEN <<Null, Null, Null>>
                ELSE initSession(stored, <<Null, Null, Null>>)
       IN /\ token = s[1] /\ secret = s[2] /\ authTime = s[3]
          /\ returned = IF initThrows(stored)
                        THEN [call |-> 0, thrown |-> StrV(InitErrorMessage)]
                        ELSE [call |-> 0]
    /\ now = 1
    /\ calls = <<>>
    /\ wire = <<>>
    /\ PageLoaded

\* --------------------------------------------------------------- actions
\* one millisecond passes
Tick ==
    /\ now < MaxClock
    /\ now' = now + 1
    /\ UNCHANGED <<token, secret, authTime, localStorage, calls, wire, returned>>
    /\ UNCHANGED pageVars

\* API.init() called again (customBaseURL = null); when it throws, the
\* exception is what the call leaves to its caller
ApiInit ==
    LET stored == getLocalStorage("api_credentials", ObjV(EmptyObj)) IN
    /\ IF initThrows(stored)
       THEN /\ returned' = [call |-> 0, thrown |-> StrV(InitErrorMessage)]
            /\ UNCHANGED <<token, secret, authTime>>
       ELSE /\ LET s == initSession(stored, session)
               IN token' = s[1] /\ secret' = s[2] /\ authTime' = s[3]
            /\ UNCHANGED returned
    /\ UNCHANGED <<localStorage, now, calls, wire>>
    /\ UNCHANGED pageVars

\* a login that signs its form like any other request
LoginSigned(email, password) ==
    /\ Len(calls) < MaxCalls
    /\ wire' = Append(wire,
          [call |-> Len(calls) + 1,
           method |-> "POST",
           url |-> baseURL,
           fields |-> toQueryString(buildParams(
                         [action |-> StrV("authSource"),
                          usr |-> StrV(email),
                          pwd |-> StrV(password),
                          source |-> StrV("android")]
                         @@ ("company-key" :> StrV(companyKey)), now))])
    /\ calls' = Append(calls, [op |-> "login", method |-> "login",
                               action |-> "authSource", email |-> email,
                               status |-> "pending"])
    /\ UNCHANGED <<token, secret, authTime, localStorage, now, returned>>
    /\ UNCHANGED pageVars

\* API.login(email, password) up to `await fetch(...)`: the POST is sent
Login(email, password) ==
    /\ Len(calls) < MaxCalls
    /\ wire' = Append(wire,
          [call |-> Len(calls) + 1,
           method |-> "POST",
           url |-> baseURL,
           fields |-> toQueryString([action |-> StrV("authSource"),
                                     usr |-> StrV(email),
                                     pwd |-> StrV(password),
                                     source |-> StrV("android")]
                                    @@ ("company-key" :> StrV(companyKey)))])
    /\ calls' = Append(calls, [op |-> "login", method |-> "login",
                               action |-> "authSource", email |-> email,
                               status |-> "pending"])
    /\ UNCHANGED <<token, secret, authTime, localStorage, now, returned>>
    /\ UNCHANGED pageVars

\* loginAccepts with the err code left out of the test: `data.dat` alone
loginAcceptsAnyErr(data) == Truthy(Prop(data, "dat"))

\* `data.err === 0 && data.dat` of API.login, data an object
loginAccepts(data) ==
    /\ Prop(data, "err") = NumV(0)
    /\ Truthy(Prop(data, "dat"))

\* credentialsRecord with the userid left out of the stored object
credentialsRecordNoUserid(dat, email, t) ==
    ObjV([token |-> Prop(dat, "token"),
          secret |-> Prop(dat, "secret"),
          authTime |-> NumV(t),
          email |-> StrV(email)])

\* the object API.login hands to Utils.setLocalStorage
credentialsRecord(dat, email, t) ==
    ObjV([token |-> Prop(dat, "token"),
          secret |-> Prop(dat, "secret"),
          authTime |-> NumV(t),
          userid |-> Prop(dat, "userid"),
          email |-> StrV(email)])

\* the failure result of API.login for an answer it does not accept
loginFailure(out) ==
    [success |-> FALSE,
     error |-> IF out.kind = "json" /\ out.data # Null
               THEN OrElse(Prop(out.data, "desc"), StrV("Login failed"))
               ELSE StrV(ErrorMessage(out))]

\* LoginRespond taking the session only when the credentials could be
\* stored: a failed write makes the login fail
LoginRespondNeedsStorage(id, out, storageOk) ==
    /\ Pending(id, "login")
    /\ out.kind # "timeout"
    /\ IF out.kind = "json" /\ out.data # Null /\ loginAccepts(out.data)
       THEN LET dat == Prop(out.data, "dat") IN
            IF storageOk
            THEN /\ token' = Prop(dat, "token")
                 /\ secret' = Prop(dat, "secret")
                 /\ authTime' = NumV(now)
                 /\ localStorage' = setLocalStorage("api_credentials",
                                        credentialsRecord(dat, calls[id].email, now),
                                        TRUE)
                 /\ returned' = [call |-> id,
                                 result |-> [success |-> TRUE, data |-> dat]]
            ELSE /\ returned' = [call |-> id,
                                 result |-> [success |-> FALSE,
                                             error |-> StrV("QuotaExceededError")]]
                 /\ UNCHANGED <<token, secret, authTime, localStorage>>
       ELSE /\ storageOk
            /\ returned' = [call |-> id, result |-> loginFailure(out)]
            /\ UNCHANGED <<token, secret, authTime, localStorage>>
    /\ calls' = [calls EXCEPT ![id].status = "done"]
    /\ UNCHANGED <<now, wire>>
    /\ UNCHANGED pageVars

\* LoginRespond writing the session in two steps that other logins can come
\* between: with another login in flight the secret is not yet written when
\* the state is seen
LoginRespondTorn(id, out, storageOk) ==
    /\ Pending(id, "login")
    /\ out.kind # "timeout"
    /\ IF out.kind = "json" /\ out.data # Null /\ loginAccepts(out.data)
       THEN LET dat == Prop(out.data, "dat") IN
            /\ token' = Prop(dat, "token")
            /\ secret' = IF \E j \in 1..Len(calls) : j # id /\ Pending(j, "login")
                         THEN secret
                         ELSE Prop(dat, "secret")
            /\ authTime' = NumV(now)
            /\ localStorage' = setLocalStorage("api_credentials",
                                   credentialsRecord(dat, calls[id].email, now),
                                   storageOk)
            /\ returned' = [call |-> id,
                            result |-> [success |-> TRUE, data |-> dat]]
       ELSE /\ storageOk
            /\ returned' = [call |-> id, result |-> loginFailure(out)]
            /\ UNCHANGED <<token, secret, authTime, localStorage>>
    /\ calls' = [calls EXCEPT ![id].status = "done"]
    /\ UNCHANGED <<now, wire>>
    /\ UNCHANGED pageVars

\* API.login from the answer of fetch to its return, in the session, the
\* storage and the value returned.  login calls fetch directly, so no
\* timeout ends the wait.  storageOk: setItem did not throw.
loginSettles(id, out, storageOk) ==
    /\ Pending(id, "login")
    /\ out.kind # "timeout"
    /\ IF out.kind = "json" /\ out.data # Null /\ loginAccepts(out.data)
       THEN LET dat == Prop(out.data, "dat") IN
            /\ token' = Prop(dat, "token")
            /\ secret' = Prop(dat, "secret")
            /\ authTime' = NumV(now)
            /\ localStorage' = setLocalStorage("api_credentials",
                                   credentialsRecord(dat, calls[id].email, now),
                                   storageOk)
            /\ returned' = [call |-> id,
                            result |-> [success |-> TRUE, data |-> dat]]
       ELSE /\ storageOk
            /\ returned' = [call |-> id, result |-> loginFailure(out)]
            /\ UNCHANGED <<token, secret, authTime, localStorage>>

\* API.login returning to a caller that leaves the page as it is
LoginRespond(id, out, storageOk) ==
    /\ loginSettles(id, out, storageOk)
    /\ calls' = [calls EXCEPT ![id].status = "done"]
    /\ UNCHANGED <<now, wire>>
    /\ UNCHANGED pageVars

\* Logout with the removal done right after `this.token = null` and its
\* exception not caught: a throwing removeItem ends logout there
LogoutThrows(storageOk) ==
    /\ token' = Null
    /\ secret' = IF storageOk THEN Null ELSE secret
    /\ authTime' = IF storageOk THEN Null ELSE authTime
    /\ localStorage' = removeLocalStorage("api_credentials", storageOk)
    /\ UNCHANGED <<now, calls, wire, returned>>
    /\ UNCHANGED pageVars

\* API.logout().  storageOk: removeItem did not throw.
logout(storageOk) ==
    /\ token' = Null
    /\ secret' = Null
    /\ authTime' = Null
    /\ localStorage' = removeLocalStorage("api_credentials", storageOk)
    /\ UNCHANGED <<now, calls, wire, returned>>

\* API.logout() called on its own
Logout(storageOk) == logout(storageOk) /\ UNCHANGED pageVars

\* the entry of `calls` for a call of API.request through `method`
requestCall(method, action) ==
    [op |-> "request", method |-> method, action |-> action,
     status |-> "pending"]

\* the query string API.request sends for action and params
requestFields(action, params) ==
    toQueryString(buildParams(Spread([action |-> StrV(action)], params), now))

\* API.request(action, params) up to `await Utils.fetchWithTimeout(...)`:
\* the parameters are built and the GET is sent.  `method` names the API
\* method the caller used.
request(method, action, params) ==
    /\ Len(calls) < MaxCalls
    /\ wire' = Append(wire, [call |-> Len(calls) + 1,
                             method |-> "GET",
                             url |-> baseURL \o "?",
                             fields |-> requestFields(action, params)])
    /\ calls' = Append(calls, requestCall(method, action))
    /\ UNCHANGED <<token, secret, authTime, localStorage, now, returned>>

\* requestResult with `await response.json()` outside the try block: a body
\* that is not JSON makes request() reject with the parse error
requestResultJsonUncaught(out) ==
    IF out.kind = "json" /\ out.data # Null
    THEN IF Prop(out.data, "err") = NumV(0)
         THEN [success |-> TRUE, data |-> Prop(out.data, "dat"),
               message |-> Prop(out.data, "desc")]
         ELSE [success |-> FALSE,
               error |-> OrElse(Prop(out.data, "desc"), StrV("Unknown error")),
               data |-> Prop(out.data, "dat")]
    ELSE IF out.kind = "badjson"
         THEN [thrown |-> StrV(ErrorMessage(out))]
         ELSE [success |-> FALSE, error |-> StrV(ErrorMessage(out))]

\* requestResult asking, as login does, for a payload besides err = 0
requestResultNeedsPayload(out) ==
    IF out.kind = "json" /\ out.data # Null
    THEN IF Prop(out.data, "err") = NumV(0) /\ Truthy(Prop(out.data, "dat"))
         THEN [success |-> TRUE, data |-> Prop(out.data, "dat"),
               message |-> Prop(out.data, "desc")]
         ELSE [success |-> FALSE,
               error |-> OrElse(Prop(out.data, "desc"), StrV("Unknown error")),
               data |-> Prop(out.data, "dat")]
    ELSE [success |-> FALSE, error |-> StrV(ErrorMessage(out))]

\* the value API.request returns for what its awaits produced
requestResult(out) ==
    IF out.kind = "json" /\ out.data # Null
    THEN IF Prop(out.data, "err") = NumV(0)
         THEN [success |-> TRUE, data |-> Prop(out.data, "dat"),
               message |-> Prop(out.data, "desc")]
         ELSE [success |-> FALSE,
               error |-> OrElse(Prop(out.data, "desc"), StrV("Unknown error")),
               data |-> Prop(out.data, "dat")]
    ELSE [success |-> FALSE, error |-> StrV(ErrorMessage(out))]

\* an answer whose err is one of the token-invalid codes
IsTokenInvalid(out) ==
    /\ out.kind = "json"
    /\ out.data # Null
    /\ Prop(out.data, "err") \in {NumV(c) : c \in TokenInvalidCodes}

\* RequestRespond that ends the session when the server rejects the token
RequestRespondExpire(id, out) ==
    /\ Pending(id, "request")
    /\ calls' = [calls EXCEPT ![id].status = "done"]
    /\ returned' = [call |-> id, result |-> requestResult(out)]
    /\ IF IsTokenInvalid(out)
       THEN token' = Null /\ secret' = Null /\ authTime' = Null
       ELSE UNCHANGED <<token, secret, authTime>>
    /\ UNCHANGED <<localStorage, now, wire>>
    /\ UNCHANGED pageVars

\* the number of HTTP requests sent for call id
Attempts(id) == Cardinality({i \in 1..Len(wire) : wire[i].call = id})

\* RequestRespond that sends the request again, up to three attempts, when
\* the attempt timed out or failed in the network
RequestRespondRetry(id, out) ==
    /\ Pending(id, "request")
    /\ IF out.kind \in {"neterr", "timeout"} /\ Attempts(id) < 3
       THEN /\ wire' = Append(wire, [wire[CHOOSE i \in 1..Len(wire) : wire[i].call = id]
                                       EXCEPT !.fields.salt = DecStr(now)])
            /\ UNCHANGED <<calls, returned>>
       ELSE /\ calls' = [calls EXCEPT ![id].status = "done"]
            /\ returned' = [call |-> id, result |-> requestResult(out)]
            /\ UNCHANGED wire
    /\ UNCHANGED <<token, secret, authTime, localStorage, now>>
    /\ UNCHANGED pageVars

\* API.request from the settling of Utils.fetchWithTimeout (the answer, a
\* network error, or the 30 s timer) to its return
requestReturns(id, out) ==
    /\ Pending(id, "request")
    /\ calls' = [calls EXCEPT ![id].status = "done"]
    /\ returned' = [call |-> id, result |-> requestResult(out)]
    /\ UNCHANGED <<token, secret, authTime, localStorage, now, wire>>

\* API.request returning to a caller that leaves the page as it is
RequestRespond(id, out) == requestReturns(id, out) /\ UNCHANGED pageVars

\* the devices of the account
Devices ==
    {[pn |-> StrV("P1"), devcode |-> StrV("2304"), devaddr |-> StrV("1"),
      sn |-> StrV("SN1")]}

\* API.getAccountInfo()
GetAccountInfo ==
    /\ request("getAccountInfo", "queryAccountInfo", EmptyObj)
    /\ UNCHANGED pageVars

\* API.getDeviceLastData(pn, devcode, devaddr, sn)
GetDeviceLastData(d) ==
    /\ request("getDeviceLastData", "querySPDeviceLastData",
               [pn |-> d.pn, devcode |-> d.devcode, devaddr |-> d.devaddr, sn |-> d.sn])
    /\ UNCHANGED pageVars

\* API.controlDevice(pn, devcode, devaddr, sn, id, val)
ControlDevice(d, id, val) ==
    /\ request("controlDevice", "ctrlDevice",
               [pn |-> d.pn, devcode |-> d.devcode, devaddr |-> d.devaddr,
                sn |-> d.sn, id |-> id, val |-> val])
    /\ UNCHANGED pageVars

\* API.getPlantInfo(plantId)
GetPlantInfo(plantId) ==
    /\ request("getPlantInfo", "queryPlantInfo", [plantid |-> plantId])
    /\ UNCHANGED pageVars

\* the identifiers a caller can hand to the methods: those of a device, and
\* the same with an empty serial number; a plant id, and an empty one
DeviceInputs == Devices \cup {[d EXCEPT !.sn = StrV("")] : d \in Devices}
PlantIds == {StrV("7"), StrV("")}

\* the names buildParams and request set themselves
ReservedKeys == {"sign", "salt", "token", "action"}

\* params a caller of API.request can pass beyond those the methods of API
\* pass: parameters whose keys are the reserved names
CallerParams == {[k \in ReservedKeys |-> StrV("forged")]}

\* API.request(action, params) called directly
Request(action, params) ==
    /\ request("request", action, params)
    /\ UNCHANGED pageVars

\* ------------------------------------------------- Dashboard (dashboard.js)
\* the refreshes (runs of Dashboard.refresh) a run of the page starts
MaxRefreshes == 2

\* account.devices of the account: two devices, in the server's order
AccountDevices ==
    <<[pn |-> StrV("P1"), devcode |-> StrV("2304"), devaddr |-> StrV("1"),
       sn |-> StrV("SN1")],
      [pn |-> StrV("P1"), devcode |-> StrV("2304"), devaddr |-> StrV("2"),
       sn |-> StrV("SN2")]>>

\* payloads of the answers to queryAccountInfo: none, an account with its
\* devices, an account without a device list
AccountPayloads ==
    {Null,
     JSONObj([plants |-> ArrV(<<>>), devices |-> ArrV(AccountDevices)]),
     JSONObj([plants |-> ArrV(<<>>)])}

AccountOutcomes == Outcomes(AccountPayloads, {Null})

\* the last data the server holds for a device when it answers call id:
\* every answer carries a newer reading than the answers to earlier calls
Reading(id) == JSONObj([reading |-> NumV(id)])

\* the answers to call id, a querySPDeviceLastData
DeviceOutcomes(id) == Outcomes({Null, Reading(id)}, {Null})

\* Math.max(a, b) of two numbers
MathMax(a, b) == IF a >= b THEN a ELSE b

\* the default Dashboard.loadSettings and Settings pass to getLocalStorage (s)
DefaultRefreshSeconds == 30

\* the least interval Dashboard.loadSettings accepts (s)
MinRefreshSeconds == 10

\* Dashboard.loadSettings(): the value it gives this.refreshInterval (ms)
loadSettings ==
    MathMax(MinRefreshSeconds,
            getLocalStorage("settings_refresh_interval",
                            NumV(DefaultRefreshSeconds)).v) * 1000

\* setInterval(() => this.refresh(), period): the timer it returns
setInterval(period) == [t |-> "timer", period |-> period]

\* Dashboard.startAutoRefresh(): stopAutoRefresh(), then the new timer
startAutoRefresh == setInterval(refreshInterval)

\* Dashboard.stopAutoRefresh(): the timer is cleared and forgotten
stopAutoRefresh == Null

\* the params of API.getDeviceLastData(pn, devcode, devaddr, sn)
deviceParams(d) ==
    [pn |-> d.pn, devcode |-> d.devcode, devaddr |-> d.devaddr, sn |-> d.sn]

\* Dashboard.refresh() up to `await API.getAccountInfo()`;
\* caller: the function that called refresh, or Dashboard.init
refreshStarts(caller) ==
    /\ Len(tasks) < MaxRefreshes
    /\ wire' = Append(wire, [call |-> Len(calls) + 1,
                             method |-> "GET",
                             url |-> baseURL \o "?",
                             fields |-> requestFields("queryAccountInfo", EmptyObj)])
    /\ calls' = Append(calls, requestCall("getAccountInfo", "queryAccountInfo"))
    /\ tasks' = Append(tasks, [account |-> Len(calls) + 1, batch |-> <<>>,
                               phase |-> "account", caller |-> caller])

\* the callback of setInterval: a refresh is started and left to run
TimerFires ==
    /\ autoRefreshTimer # Null
    /\ refreshStarts("timer")
    /\ UNCHANGED <<token, secret, authTime, localStorage, now, returned>>
    /\ UNCHANGED <<baseURL, refreshInterval, autoRefreshTimer, lastDataCache,
                   currentView, autoRefreshEnabled, hidden>>

\* `account.devices || []` of Dashboard.refresh
devicesOf(account) == OrElse(Prop(account, "devices"), ArrV(<<>>)).a

\* the timer after the refresh of task t has ended: Dashboard.init goes on
\* to startAutoRefresh(), any other caller leaves the timer alone
timerAfterRefresh(t) ==
    IF tasks[t].caller \in {"App.init", "App.handleLogin"}
    THEN startAutoRefresh
    ELSE autoRefreshTimer

\* Dashboard.refresh() from the return of API.getAccountInfo() to the
\* `await Promise.all(promises)` of loadDeviceData: one getDeviceLastData is
\* sent per device; with no device, or no account, the refresh ends here
AccountReturns(id, out) ==
    LET accountResponse == requestResult(out)
        t == CHOOSE i \in 1..Len(tasks) : tasks[i].account = id
        devs == IF accountResponse.success /\ Truthy(accountResponse.data)
                THEN devicesOf(accountResponse.data)
                ELSE <<>>
    IN
    /\ Pending(id, "request")
    /\ \E i \in 1..Len(tasks) : tasks[i].account = id
    /\ returned' = [call |-> id, result |-> accountResponse]
    /\ calls' = [calls EXCEPT ![id].status = "done"] \o
                [i \in 1..Len(devs) |->
                    requestCall("getDeviceLastData", "querySPDeviceLastData")]
    /\ wire' = wire \o
               [i \in 1..Len(devs) |->
                   [call |-> Len(calls) + i,
                    method |-> "GET",
                    url |-> baseURL \o "?",
                    fields |-> requestFields("querySPDeviceLastData",
                                             deviceParams(devs[i]))]]
    /\ IF devs = <<>>
       THEN /\ tasks' = [tasks EXCEPT ![t].phase = "done"]
            /\ autoRefreshTimer' = timerAfterRefresh(t)
       ELSE /\ tasks' = [tasks EXCEPT
                            ![t].phase = "devices",
                            ![t].batch = [j \in {Len(calls) + i : i \in 1..Len(devs)}
                                            |-> devs[j - Len(calls)]]]
            /\ UNCHANGED autoRefreshTimer
    /\ UNCHANGED <<token, secret, authTime, localStorage, now>>
    /\ UNCHANGED <<baseURL, refreshInterval, lastDataCache, currentView,
                   autoRefreshEnabled, hidden>>

\* the `.then` callback of loadDeviceData that stores whatever the call
\* returned, a failure included
cacheAfterAny(device, response) ==
    (ToStr(device.sn) :> Get(response, "data")) @@ lastDataCache

\* the `.then` callback of loadDeviceData for `device`: lastDataCache after it
cacheAfter(device, response) ==
    IF response.success /\ Truthy(response.data)
    THEN (ToStr(device.sn) :> response.data) @@ lastDataCache
    ELSE lastDataCache

\* one getDeviceLastData of a batch returns: its `.then` callback runs, and
\* when it was the last of the batch Promise.all resolves, the refresh ends
\* and Dashboard.init, if it awaited this refresh, starts the timer
DeviceReturns(id, out) ==
    LET response == requestResult(out)
        t == CHOOSE i \in 1..Len(tasks) : id \in DOMAIN tasks[i].batch
        device == tasks[t].batch[id]
        settled == \A j \in DOMAIN tasks[t].batch :
                      j = id \/ calls[j].status = "done"
    IN
    /\ Pending(id, "request")
    /\ \E i \in 1..Len(tasks) : id \in DOMAIN tasks[i].batch
    /\ calls' = [calls EXCEPT ![id].status = "done"]
    /\ returned' = [call |-> id, result |-> response]
    /\ lastDataCache' = cacheAfter(device, response)
    /\ IF settled
       THEN /\ tasks' = [tasks EXCEPT ![t].phase = "done"]
            /\ autoRefreshTimer' = timerAfterRefresh(t)
       ELSE UNCHANGED <<tasks, autoRefreshTimer>>
    /\ UNCHANGED <<token, secret, authTime, localStorage, now, wire>>
    /\ UNCHANGED <<baseURL, refreshInterval, currentView, autoRefreshEnabled,
                   hidden>>

\* The page has been loaded with the credentials of an earlier login in
\* storage and App.init has run up to the await of Dashboard.init:
\* showMainView has selected the dashboard and started the timer, and
\* Dashboard.init has loaded the settings and sent the first getAccountInfo
InitDashboard ==
    /\ localStorage = [k \in StorageKeys |->
                          IF k = "api_credentials" THEN EarlierCredentials
                          ELSE NoItem]
    /\ LET s == initSession(EarlierCredentials, <<Null, Null, Null>>)
       IN token = s[1] /\ secret = s[2] /\ authTime = s[3]
    /\ now = 1
    /\ calls = <<requestCall("getAccountInfo", "queryAccountInfo")>>
    /\ wire = <<[call |-> 1,
                 method |-> "GET",
                 url |-> VendorBaseURL \o "?",
                 fields |-> requestFields("queryAccountInfo", EmptyObj)]>>
    /\ returned = [call |-> 0]
    /\ baseURL = VendorBaseURL
    /\ refreshInterval = loadSettings
    /\ autoRefreshTimer = setInterval(InitialRefreshInterval)
    /\ lastDataCache = EmptyObj
    /\ currentView = "main"
    /\ autoRefreshEnabled = TRUE
    /\ hidden = FALSE
    /\ tasks = <<[account |-> 1, batch |-> <<>>, phase |-> "account",
                  caller |-> "App.init"]>>

\* the dashboard of a logged-in user left to itself: the timer fires and
\* the answers arrive
NextDashboard ==
    \/ TimerFires
    \/ \E id \in 1..Len(calls), out \in AccountOutcomes : AccountReturns(id, out)
    \/ \E id \in 1..Len(calls) :
          \E out \in DeviceOutcomes(id) : DeviceReturns(id, out)

SpecDashboard == InitDashboard /\ [][NextDashboard]_vars

\* the first refresh of the dashboard, from its getAccountInfo to the end
\* of its batch, before the timer fires, while the clock runs
NextBatch ==
    \/ Tick
    \/ \E id \in 1..Len(calls), out \in AccountOutcomes : AccountReturns(id, out)
    \/ \E id \in 1..Len(calls) :
          \E out \in DeviceOutcomes(id) : DeviceReturns(id, out)

SpecBatch == InitDashboard /\ [][NextBatch]_vars

\* --------------------------------------------------------------- App (app.js)
\* App.init is still awaiting Dashboard.init: setupEventListeners has not
\* run and no event of the user reaches a handler
Listening ==
    ~\E t \in 1..Len(tasks) :
        tasks[t].caller = "App.init" /\ tasks[t].phase # "done"

\* a handleLogin has not reached its end, so the submit button of the login
\* form is disabled: its login is in flight or its Dashboard.init is awaited
handleLoginBusy ==
    \/ \E i \in 1..Len(calls) : Pending(i, "login")
    \/ \E t \in 1..Len(tasks) :
          tasks[t].caller = "App.handleLogin" /\ tasks[t].phase # "done"

\* a handleLogin of this run of the page has gone past its Dashboard.init,
\* on to Settings.init(), which registers the save buttons of the settings
SettingsReady ==
    \E t \in 1..Len(tasks) :
       tasks[t].caller = "App.handleLogin" /\ tasks[t].phase = "done"

\* a refresh started with the refresh button has not ended: the button is
\* disabled
refreshBtnDisabled ==
    \E t \in 1..Len(tasks) :
       tasks[t].caller = "App.refreshDashboard" /\ tasks[t].phase # "done"

\* App.handleLogin() up to `await API.login(email, password)`; an empty
\* email or password ends it before
HandleLogin(email, password) ==
    /\ Listening
    /\ currentView = "login"
    /\ ~handleLoginBusy
    /\ email # "" /\ password # ""
    /\ Login(email, password)

\* App.handleLogin() from the return of API.login to the await inside
\* Dashboard.init: after a success showMainView selects the dashboard and
\* starts the timer, and Dashboard.init loads the settings and starts its
\* refresh; after a failure the error is shown.  (rememberMe is not checked.)
HandleLoginReturns(id, out, storageOk) ==
    /\ loginSettles(id, out, storageOk)
    /\ UNCHANGED now
    /\ IF returned'.result.success
       THEN /\ Len(tasks) < MaxRefreshes
            /\ currentView' = "main"
            /\ autoRefreshTimer' = startAutoRefresh
            /\ autoRefreshEnabled' = TRUE
            /\ refreshInterval' = loadSettings'
            /\ calls' = Append([calls EXCEPT ![id].status = "done"],
                               requestCall("getAccountInfo", "queryAccountInfo"))
            /\ wire' = Append(wire,
                          [call |-> Len(calls) + 1,
                           method |-> "GET",
                           url |-> baseURL \o "?",
                           fields |-> requestFields("queryAccountInfo", EmptyObj)'])
            /\ tasks' = Append(tasks, [account |-> Len(calls) + 1, batch |-> <<>>,
                                       phase |-> "account",
                                       caller |-> "App.handleLogin"])
            /\ UNCHANGED <<baseURL, lastDataCache, hidden>>
       ELSE /\ calls' = [calls EXCEPT ![id].status = "done"]
            /\ UNCHANGED wire
            /\ UNCHANGED pageVars

\* App.handleLogout(), the user confirming
HandleLogout(storageOk) ==
    /\ Listening
    /\ currentView = "main"
    /\ logout(storageOk)
    /\ autoRefreshTimer' = stopAutoRefresh
    /\ currentView' = "login"
    /\ UNCHANGED <<baseURL, refreshInterval, lastDataCache, autoRefreshEnabled,
                   hidden, tasks>>

\* the views of the navigation tabs
Views == {"dashboard", "devices"}

\* App.switchView(viewName), a click on a navigation tab
SwitchView(viewName) ==
    /\ Listening
    /\ currentView = "main"
    /\ IF viewName = "dashboard"
       THEN autoRefreshTimer' = startAutoRefresh /\ autoRefreshEnabled' = TRUE
       ELSE autoRefreshTimer' = stopAutoRefresh /\ autoRefreshEnabled' = FALSE
    /\ UNCHANGED <<token, secret, authTime, localStorage, now, calls, wire,
                   returned>>
    /\ UNCHANGED <<baseURL, refreshInterval, lastDataCache, currentView, hidden,
                   tasks>>

\* the listener of visibilitychange: the page is hidden, or shown again
VisibilityChange ==
    /\ Listening
    /\ hidden' = ~hidden
    /\ IF hidden'
       THEN autoRefreshTimer' = stopAutoRefresh
       ELSE IF autoRefreshEnabled /\ currentView = "dashboard"
            THEN autoRefreshTimer' = startAutoRefresh
            ELSE UNCHANGED autoRefreshTimer
    /\ UNCHANGED <<token, secret, authTime, localStorage, now, calls, wire,
                   returned>>
    /\ UNCHANGED <<baseURL, refreshInterval, lastDataCache, currentView,
                   autoRefreshEnabled, tasks>>

\* App.refreshDashboard(), a click on the refresh button, up to the await
\* inside Dashboard.refresh
RefreshDashboard ==
    /\ Listening
    /\ currentView = "main"
    /\ ~refreshBtnDisabled
    /\ refreshStarts("App.refreshDashboard")
    /\ UNCHANGED <<token, secret, authTime, localStorage, now, returned>>
    /\ UNCHANGED <<baseURL, refreshInterval, autoRefreshTimer, lastDataCache,
                   currentView, autoRefreshEnabled, hidden>>

\* ------------------------------------------------- Settings (settings.js)
\* the value of a decimal digit
DigitValue(c) == CHOOSE i \in 0..9 : Digits[i + 1] = c

\* the number the leading decimal digits of text stand for, after acc
RECURSIVE ParseDigits(_, _)
ParseDigits(text, acc) ==
    IF text = <<>> \/ Head(text) \notin {Digits[i] : i \in 1..10} THEN acc
    ELSE ParseDigits(Tail(text), acc * 10 + DigitValue(Head(text)))

\* parseInt(text) of a text given as its characters: NaN unless it starts
\* with a digit
parseInt(text) ==
    IF text = <<>> \/ Head(text) \notin {Digits[i] : i \in 1..10} THEN NaN
    ELSE NumV(ParseDigits(text, 0))

\* the bounds Settings.saveGeneralSettings accepts (s)
MaxRefreshSeconds == 300

\* what the user can have typed into the refresh-interval field
IntervalInputs == {<<>>, <<"5">>, <<"6", "0">>, <<"5", "0", "0">>, <<"s">>}

\* `refreshInterval < 10 || refreshInterval > 300` of saveGeneralSettings
intervalRejected(seconds) ==
    seconds.v < MinRefreshSeconds \/ seconds.v > MaxRefreshSeconds

\* Settings.saveGeneralSettings() with `text` in the interval field, the
\* theme 'dark' selected and notifications not enabled
SaveGeneralSettings(text, storageOk) ==
    LET interval == OrElse(parseInt(text), NumV(DefaultRefreshSeconds)) IN
    /\ Listening
    /\ SettingsReady
    /\ currentView = "main"
    /\ IF intervalRejected(interval)
       THEN UNCHANGED <<localStorage, refreshInterval, autoRefreshTimer>>
       ELSE /\ localStorage' =
                  IF storageOk
                  THEN [setLocalStorage("settings_refresh_interval", interval, storageOk)
                          EXCEPT !["settings_theme"] = StrV("dark"),
                                 !["settings_notifications"] = BoolV(FALSE)]
                  ELSE localStorage
            /\ IF autoRefreshTimer # Null
               THEN /\ refreshInterval' = loadSettings'
                    /\ autoRefreshTimer' = setInterval(refreshInterval')
               ELSE UNCHANGED <<refreshInterval, autoRefreshTimer>>
    /\ UNCHANGED <<token, secret, authTime, now, calls, wire, returned>>
    /\ UNCHANGED <<baseURL, lastDataCache, currentView, autoRefreshEnabled,
                   hidden, tasks>>

\* what the user can have typed into the API base URL field, in its parts:
\* a scheme or none, the rest, and a trailing slash or none
UrlInputs ==
    [scheme : {"", "https"}, rest : {"proxy.example/api"}, slash : BOOLEAN]

\* the text of the field
UrlText(u) ==
    (IF u.scheme = "" THEN "" ELSE u.scheme \o "://") \o u.rest \o
    (IF u.slash THEN "/" ELSE "")

\* `new URL(text)` throws: the text has no scheme and no base is given
urlThrows(u) == u.scheme = ""

\* `baseURL.endsWith('/') ? baseURL : baseURL + '/'`
normalizedURL(u) == IF u.slash THEN UrlText(u) ELSE UrlText(u) \o "/"

\* Settings.saveAPISettings() with u in the field
SaveAPISettings(u, storageOk) ==
    /\ Listening
    /\ SettingsReady
    /\ currentView = "main"
    /\ IF urlThrows(u)
       THEN UNCHANGED <<baseURL, localStorage>>
       ELSE /\ baseURL' = normalizedURL(u)
            /\ localStorage' = setLocalStorage("settings_api_base_url",
                                               StrV(normalizedURL(u)), storageOk)
    /\ UNCHANGED <<token, secret, authTime, now, calls, wire, returned>>
    /\ UNCHANGED <<refreshInterval, autoRefreshTimer, lastDataCache,
                   currentView, autoRefreshEnabled, hidden, tasks>>

\* --------------------------------------------------------------- the page
\* The user reloads the page: the calls in flight and every field are gone,
\* the scripts run again (API.init() reads the stored credentials) and
\* DOMContentLoaded runs App.init up to its first await or its end.
Reload ==
    LET stored == getLocalStorage("api_credentials", ObjV(EmptyObj))
        s == IF initThrows(stored) THEN <<Null, Null, Null>>
             ELSE initSession(stored, <<Null, Null, Null>>)
    IN
    /\ Len(calls) > 0
    /\ token' = s[1] /\ secret' = s[2] /\ authTime' = s[3]
    /\ returned' = IF initThrows(stored)
                   THEN [call |-> 0, thrown |-> StrV(InitErrorMessage)]
                   ELSE [call |-> 0]
    /\ UNCHANGED <<localStorage, now>>
    /\ baseURL' = VendorBaseURL
    /\ lastDataCache' = EmptyObj
    /\ autoRefreshEnabled' = TRUE
    /\ hidden' = FALSE
    /\ IF isAuthenticated'
       THEN /\ currentView' = "main"
            /\ autoRefreshTimer' = setInterval(InitialRefreshInterval)
            /\ refreshInterval' = loadSettings
            /\ calls' = <<requestCall("getAccountInfo", "queryAccountInfo")>>
            /\ wire' = <<[call |-> 1,
                          method |-> "GET",
                          url |-> VendorBaseURL \o "?",
                          fields |-> requestFields("queryAccountInfo", EmptyObj)']>>
            /\ tasks' = <<[account |-> 1, batch |-> <<>>, phase |-> "account",
                           caller |-> "App.init"]>>
       ELSE /\ currentView' = "login"
            /\ autoRefreshTimer' = Null
            /\ refreshInterval' = InitialRefreshInterval
            /\ calls' = <<>>
            /\ wire' = <<>>
            /\ tasks' = <<>>

\* the page loaded without stored credentials, App.init run to its end:
\* the login view is shown and the listeners are registered
InitPage ==
    /\ Init
    /\ localStorage["api_credentials"] = NoItem

\* the answers to the login of the page: a network failure, a refusal, a
\* session
PageLoginOutcomes ==
    {NetError,
     Json(Envelope(1, DescOf(1), Null)),
     Json(Envelope(0, DescOf(0),
                   JSONObj([token |-> StrV("T2"), secret |-> StrV("S2"),
                            userid |-> StrV("U2")])))}

\* the answers to the getAccountInfo of the page, the account having no
\* device: a timeout, a rejected token, the account
PageAccountOutcomes ==
    {Timeout,
     Json(Envelope(2, DescOf(2), Null)),
     Json(Envelope(0, DescOf(0), JSONObj([plants |-> ArrV(<<>>)])))}

\* the page in the hands of the user
NextPage ==
    \/ \E e \in Emails, p \in Passwords : HandleLogin(e, p)
    \/ \E id \in 1..Len(calls), out \in PageLoginOutcomes, ok \in BOOLEAN :
          HandleLoginReturns(id, out, ok)
    \/ \E ok \in BOOLEAN : HandleLogout(ok)
    \/ \E viewName \in Views : SwitchView(viewName)
    \/ VisibilityChange
    \/ RefreshDashboard
    \/ TimerFires
    \/ \E id \in 1..Len(calls), out \in PageAccountOutcomes : AccountReturns(id, out)
    \/ \E text \in IntervalInputs, ok \in BOOLEAN : SaveGeneralSettings(text, ok)
    \/ \E u \in UrlInputs, ok \in BOOLEAN : SaveAPISettings(u, ok)
    \/ Reload

SpecPage == InitPage /\ [][NextPage]_vars

\* what an earlier run of the page, or another version of it, can have left
\* under 'settings_refresh_interval': nothing, or a number of seconds
StoredIntervals == {NoItem, NumV(5), NumV(60), NumV(500)}

\* the page loaded without stored credentials, over any stored interval
InitStored ==
    /\ localStorage \in {[k \in StorageKeys |->
                             IF k = "settings_refresh_interval" THEN v ELSE NoItem] :
                          v \in StoredIntervals}
    /\ token = Null /\ secret = Null /\ authTime = Null
    /\ now = 1
    /\ calls = <<>>
    /\ wire = <<>>
    /\ returned = [call |-> 0]
    /\ PageLoaded

SpecStored == InitStored /\ [][NextPage]_vars

\* the session operations: init, login, logout
NextSession ==
    \/ Tick
    \/ ApiInit
    \/ \E e \in Emails, p \in Passwords : Login(e, p)
    \/ \E id \in 1..MaxCalls, out \in LoginOutcomes, ok \in BOOLEAN :
          LoginRespond(id, out, ok)
    \/ \E ok \in BOOLEAN : Logout(ok)

\* the signed requests, with and without a session: a read, a control
\* command, and request() called with reserved keys
NextRequest ==
    \/ Tick
    \/ \E ok \in BOOLEAN : Logout(ok)
    \/ \E d \in Devices : GetDeviceLastData(d)
    \/ \E d \in Devices : ControlDevice(d, StrV("bse_output_source_priority"), StrV("1"))
    \/ \E params \in CallerParams : Request("queryPlantInfo", params)
    \/ \E id \in 1..MaxCalls, out \in RequestOutcomes : RequestRespond(id, out)


SpecSession == Init /\ [][NextSession]_vars

SpecRequest == Init /\ [][NextRequest]_vars

\* the session operations on a page loaded over any stored content
SpecLoad == InitLoad /\ [][NextSession]_vars


\* init, login and logout at one instant of the clock
NextStore ==
    \/ ApiInit
    \/ \E e \in Emails, p \in Passwords : Login(e, p)
    \/ \E id \in 1..MaxCalls, out \in LoginOutcomes, ok \in BOOLEAN :
          LoginRespond(id, out, ok)
    \/ \E ok \in BOOLEAN : Logout(ok)

SpecStore == Init /\ [][NextStore]_vars

\* login and signed requests side by side: login, logout, a read and a
\* control command
NextCalls ==
    \/ \E e \in Emails, p \in Passwords : Login(e, p)
    \/ \E id \in 1..MaxCalls, out \in LoginOutcomes, ok \in BOOLEAN :
          LoginRespond(id, out, ok)
    \/ \E ok \in BOOLEAN : Logout(ok)
    \/ GetAccountInfo
    \/ \E d \in Devices : ControlDevice(d, StrV("bse_output_source_priority"), StrV("1"))
    \/ \E id \in 1..MaxCalls, out \in RequestOutcomes : RequestRespond(id, out)

SpecCalls == Init /\ [][NextCalls]_vars

\* the methods that take identifiers, called with any identifiers
NextInput ==
    \/ \E d \in DeviceInputs : GetDeviceLastData(d)
    \/ \E d \in DeviceInputs :
          ControlDevice(d, StrV("bse_output_source_priority"), StrV("1"))
    \/ \E plantId \in PlantIds : GetPlantInfo(plantId)
    \/ \E id \in 1..MaxCalls, out \in RequestOutcomes : RequestRespond(id, out)

SpecInput == Init /\ [][NextInput]_vars

\* every operation of the client
Next ==
    \/ NextSession
    \/ NextRequest
    \/ NextStore
    \/ NextCalls
    \/ NextInput
    \/ NextDashboard
    \/ NextPage

Spec == Init /\ [][Next]_vars

\* ================================================================ claims
\* a value that is set: neither null nor undefined
Present(v) == v # Null /\ v # Undefined

\* the item stored under 'api_credentials' ({} when there is none)
storedCredentials == getLocalStorage("api_credentials", ObjV(EmptyObj))

\* the stored credentials hold token t, secret s and userid u
StoredHolds(t, s, u) ==
    /\ Prop(storedCredentials, "token") = t
    /\ Prop(storedCredentials, "secret") = s
    /\ Prop(storedCredentials, "userid") = u

\* the call that returned last is a call of `op` (login or request)
Returned(op) == returned.call > 0 /\ calls[returned.call].op = op

\* C1 (as claimed): in every reachable state the in-memory token and secret
\* are both set or both absent.
C1_TokenAndSecretTogether == Present(token) <=> Present(secret)

\* an answer with err = 0 whose payload carries a token, a secret and a userid
CarriesSession(out) ==
    /\ out.kind = "json"
    /\ out.data # Null
    /\ Prop(out.data, "err") = NumV(0)
    /\ Present(Prop(Prop(out.data, "dat"), "token"))
    /\ Present(Prop(Prop(out.data, "dat"), "secret"))
    /\ Present(Prop(Prop(out.data, "dat"), "userid"))

\* what C2 states of the session and of the result after such an answer
SessionFromAnswer(out) ==
    LET dat == Prop(out.data, "dat") IN
    /\ token' = Prop(dat, "token")
    /\ secret' = Prop(dat, "secret")
    /\ returned'.result.success
    /\ Prop(returned'.result.data, "userid") = Prop(dat, "userid")

\* what C2 states of the persisted record after such an answer
StoredFromAnswer(out) ==
    LET dat == Prop(out.data, "dat") IN
    StoredHolds(Prop(dat, "token"), Prop(dat, "secret"), Prop(dat, "userid"))'

\* C2 (as claimed): when login receives an envelope with err = 0 carrying
\* token T, secret S and userid U, then on return the in-memory session holds
\* T and S, the persisted record holds T, S and U, and the result is a
\* success exposing U.
C2_LoginStoresSession ==
    [][\A id \in 1..MaxCalls, out \in LoginOutcomes, ok \in BOOLEAN :
          (CarriesSession(out) /\ LoginRespond(id, out, ok))
             => (SessionFromAnswer(out) /\ StoredFromAnswer(out))]_vars

\* C2 (amended): as C2, but the persisted record holds T, S and U when the
\* storage write succeeds, and is left as it was when the write fails.
C2_LoginStoresSessionBestEffort ==
    [][\A id \in 1..MaxCalls, out \in LoginOutcomes, ok \in BOOLEAN :
          (CarriesSession(out) /\ LoginRespond(id, out, ok))
             => /\ SessionFromAnswer(out)
                /\ ok => StoredFromAnswer(out)
                /\ ~ok => localStorage' = localStorage]_vars

\* a login has returned success for the answer (T2, S2, U2), which replaced
\* the session and the stored record of the earlier run (T1, S1, U1)
C2_Witness ==
    /\ Returned("login")
    /\ returned.result.success
    /\ Prop(returned.result.data, "userid") = StrV("U2")
    /\ token = StrV("T2") /\ secret = StrV("S2")
    /\ StoredHolds(StrV("T2"), StrV("S2"), StrV("U2"))

\* a failed login as C3 lists them: a network or parse failure, an envelope
\* with err # 0, or a missing payload
LoginFails(out) ==
    \/ out.kind # "json"
    \/ out.data = Null
    \/ Prop(out.data, "err") # NumV(0)
    \/ ~Present(Prop(out.data, "dat"))

\* the description the server gave with an answer, if any
GivenDesc(out) ==
    IF out.kind = "json" /\ out.data # Null THEN Prop(out.data, "desc")
    ELSE Undefined

\* C3: when login fails, the in-memory token, secret and authTime and the
\* persisted record are what they were before, and the result is a failure
\* carrying the server's description when one was given.
C3_FailedLoginChangesNothing ==
    [][\A id \in 1..MaxCalls, out \in LoginOutcomes, ok \in BOOLEAN :
          (LoginFails(out) /\ LoginRespond(id, out, ok))
             => /\ UNCHANGED <<token, secret, authTime, localStorage>>
                /\ ~returned'.result.success
                /\ Present(GivenDesc(out))
                      => returned'.result.error = GivenDesc(out)]_vars

\* a login has failed with the server's description while a session and its
\* stored record existed, and both are still there
C3_Witness ==
    /\ Returned("login")
    /\ ~returned.result.success
    /\ returned.result.error = StrV("invalid credentials")
    /\ token = StrV("T1") /\ secret = StrV("S1") /\ authTime = NumV(0)
    /\ localStorage["api_credentials"] = EarlierCredentials

\* C4: logout always completes and leaves token, secret and authTime absent
\* and isAuthenticated() false, whatever the storage removal does.
C4_LogoutAlwaysClears ==
    /\ [](\A ok \in BOOLEAN : ENABLED Logout(ok))
    /\ [][\A ok \in BOOLEAN :
             Logout(ok) => /\ token' = Null /\ secret' = Null /\ authTime' = Null
                           /\ ~isAuthenticated']_vars

\* logout has run and the removal from storage failed: the session is gone
\* from memory while its record is still stored
C4_Witness ==
    /\ token = Null /\ secret = Null /\ authTime = Null
    /\ ~isAuthenticated
    /\ localStorage["api_credentials"] # NoItem

SendsGet ==
    /\ Len(wire') = Len(wire) + 1
    /\ wire'[Len(wire')].method = "GET"

\* C6 (as claimed): in every request sent by request(action, params) the
\* sign, salt, token and action fields are the ones computed from the
\* current session, the clock and the named action, whatever keys params has.
C6_ReservedFieldsNotOverridden ==
    [][SendsGet =>
          LET sent == wire'[Len(wire')] IN
          /\ sent.fields.salt = DecStr(now)
          /\ sent.fields.sign = generateSignature(DecStr(now), token, secret)
          /\ sent.fields.token = ToStr(token)
          /\ sent.fields.action = calls'[sent.call].action]_vars

\* C7 (as claimed): for every signed request built while a session (T, S) is
\* current, the token field is T and the sign field is the digest of the
\* request's own salt followed by T and S.
C7_SignFromOwnSalt ==
    [][(SendsGet /\ isAuthenticated) =>
          LET sent == wire'[Len(wire')] IN
          /\ sent.fields.token = token.v
          /\ sent.fields.sign = SHA1(sent.fields.salt \o token.v \o secret.v)]_vars

\* a request sent with the token of a session
SignedWithSession(sent) ==
    sent.method = "GET" /\ sent.fields.token \notin {"null", "undefined"}

\* C8 (as claimed): any two signed requests of one process lifetime carry
\* different salts.
C8_SaltsDiffer ==
    \A i, j \in 1..Len(wire) :
        (i # j /\ SignedWithSession(wire[i]) /\ SignedWithSession(wire[j]))
           => wire[i].fields.salt # wire[j].fields.salt

\* this step starts a call of API.request
StartsRequest ==
    /\ Len(calls') = Len(calls) + 1
    /\ calls'[Len(calls')].op = "request"

\* C9 (as claimed): a signed action invoked while no session exists fails
\* with a not-authenticated error and sends nothing; with a session the
\* request is built and sent.
C9_NoSessionNoRequest ==
    [][StartsRequest =>
          IF isAuthenticated
          THEN SendsGet
          ELSE /\ wire' = wire
               /\ calls'[Len(calls')].status = "done"
               /\ returned'.call = Len(calls')
               /\ ~returned'.result.success]_vars

\* C10: one invocation of controlDevice sends at most one ctrlDevice
\* request; when the attempt times out or fails in the network the call
\* returns a failure at once and nothing more is sent.
C10_ControlSentOnce ==
    /\ [](\A id \in 1..Len(calls) :
             calls[id].method = "controlDevice" => Attempts(id) <= 1)
    /\ [][\A id \in 1..Len(calls), out \in {NetError, Timeout} :
             (calls[id].method = "controlDevice" /\ RequestRespond(id, out))
                => /\ wire' = wire
                   /\ calls'[id].status = "done"
                   /\ returned'.call = id
                   /\ ~returned'.result.success]_vars

\* a controlDevice call has failed on a timeout after its one request
C10_Witness ==
    /\ Returned("request")
    /\ calls[returned.call].method = "controlDevice"
    /\ calls[returned.call].status = "done"
    /\ returned.result = [success |-> FALSE, error |-> StrV("Request timeout")]
    /\ Attempts(returned.call) = 1
    /\ wire[CHOOSE i \in 1..Len(wire) : wire[i].call = returned.call].fields.action
          = "ctrlDevice"

\* ---------------------------------------------------------------- C11..C20
\* C11 (as claimed): a read action whose attempts keep failing at the network
\* layer is attempted again, up to the retry count of 3, and fails to the
\* caller only after the last attempt.
C11_ReadIsRetried ==
    [][\A id \in 1..Len(calls), out \in {NetError, Timeout} :
          (calls[id].method = "getDeviceLastData" /\ RequestRespond(id, out))
             => IF Attempts(id) < 3
                THEN /\ calls'[id].status = "pending"
                     /\ Len(wire') = Len(wire) + 1
                     /\ wire'[Len(wire')].call = id
                ELSE /\ calls'[id].status = "done"
                     /\ ~returned'.result.success]_vars

\* the five fields of the login form
LoginFields ==
    [action |-> "authSource", usr |-> "user@example.com", pwd |-> "secret",
     source |-> "android"] @@ ("company-key" :> companyKey)

ErrIsZero(out) == out.kind = "json" /\ Prop(out.data, "err") = NumV(0)

\* the payload (dat) of a decoded answer
PayloadOf(out) == IF out.kind = "json" THEN Prop(out.data, "dat") ELSE Undefined

C14_EmptyIdentifierRejected ==
    [][/\ \A d \in DeviceInputs :
             (d.sn = StrV("")
                /\ (GetDeviceLastData(d)
                      \/ ControlDevice(d, StrV("bse_output_source_priority"), StrV("1"))))
                => /\ wire' = wire
                   /\ calls'[Len(calls')].status = "done"
                   /\ returned'.call = Len(calls')
                   /\ ~returned'.result.success
       /\ (GetPlantInfo(StrV("")))
             => /\ wire' = wire
                /\ calls'[Len(calls')].status = "done"
                /\ returned'.call = Len(calls')
                /\ ~returned'.result.success]_vars

\* the 30 s timer of call id fires and the call returns a failure
TimesOut(id) ==
    /\ \/ LoginRespond(id, Timeout, TRUE)
       \/ RequestRespond(id, Timeout)
    /\ calls'[id].status = "done"
    /\ returned'.call = id
    /\ ~returned'.result.success

\* C15 (as claimed): every network call, login included, has a timeout that
\* ends it with a failure when no response arrives: as long as a call is
\* pending, the step in which its timer fires and the call returns a failure
\* can be taken, so no call waits forever.
C15_EveryCallTimesOut ==
    \A id \in 1..Len(calls) :
       calls[id].status = "pending" => ENABLED TimesOut(id)

\* a result is a tagged failure: success = false with an error message
TaggedFailure(result) ==
    /\ {"success", "error"} \subseteq DOMAIN result
    /\ ~result.success
    /\ result.error.t = "string"
    /\ result.error.v # ""

\* the await of a call did not produce a decoded JSON object: the network
\* failed, the timer fired, or the body could not be read as an envelope
NoEnvelope(out) == out.kind # "json" \/ out.data = Null

\* C16: request() and login() never throw or reject: each returns a result
\* with a success tag, and a network failure, a timeout or an unparsable
\* body is returned as a failure carrying the error's message.
C16_NeverThrows ==
    [][/\ \A id \in 1..Len(calls), out \in RequestOutcomes :
             RequestRespond(id, out)
                => /\ returned'.call = id
                   /\ "success" \in DOMAIN returned'.result
                   /\ NoEnvelope(out)
                         => /\ TaggedFailure(returned'.result)
                            /\ returned'.result.error = StrV(ErrorMessage(out))
       /\ \A id \in 1..Len(calls), out \in LoginOutcomes, ok \in BOOLEAN :
             LoginRespond(id, out, ok)
                => /\ returned'.call = id
                   /\ "success" \in DOMAIN returned'.result
                   /\ NoEnvelope(out)
                         => /\ TaggedFailure(returned'.result)
                            /\ returned'.result.error = StrV(ErrorMessage(out))]_vars

\* a signed request has returned the failure of an unparsable body
C16_Witness ==
    /\ Returned("request")
    /\ calls[returned.call].status = "done"
    /\ returned.result = [success |-> FALSE, error |-> StrV(ErrorMessage(BadJSON))]

\* the stored record holds both a token and a secret
StoredRestorable ==
    /\ Truthy(Prop(storedCredentials, "token"))
    /\ Truthy(Prop(storedCredentials, "secret"))

\* C17 (as claimed): init never throws, whatever is persisted - nothing, a
\* text that is not JSON, JSON of another shape such as null, a record
\* lacking token or secret -, and before any login the client has a session
\* only if the stored record holds both token and secret.
C17_InitNeverThrows ==
    /\ "thrown" \notin DOMAIN returned
    /\ (calls = <<>> /\ ~StoredRestorable) => (token = Null /\ secret = Null)

\* C18: when the write of the credentials to storage fails during a login
\* that the server accepted, login still returns success, the in-memory
\* session is that of the answer, isAuthenticated() is true, and the
\* parameters built for later requests carry the new token and a signature
\* made with the new token and secret; the storage is as it was.
C18_LoginSurvivesStorageFailure ==
    [][\A id \in 1..Len(calls), out \in LoginOutcomes :
          (CarriesSession(out) /\ LoginRespond(id, out, FALSE))
             => LET dat == PayloadOf(out)
                    built == buildParams(EmptyObj, now)'
                IN /\ returned'.call = id
                   /\ returned'.result.success
                   /\ token' = Prop(dat, "token")
                   /\ secret' = Prop(dat, "secret")
                   /\ isAuthenticated'
                   /\ localStorage' = localStorage
                   /\ built.token = Prop(dat, "token")
                   /\ built.sign
                         = StrV(generateSignature(built.salt.v,
                                                  Prop(dat, "token"),
                                                  Prop(dat, "secret")))]_vars

\* a login has succeeded with a new session in memory that the storage,
\* still holding the earlier record, did not take
C18_Witness ==
    /\ Returned("login")
    /\ returned.result.success
    /\ token = StrV("T2") /\ secret = StrV("S2")
    /\ isAuthenticated
    /\ localStorage["api_credentials"] = EarlierCredentials

\* the (token, secret) pairs that come from one source: no session, the
\* record of the earlier run, or the payload of one login answer
WholePairs ==
    {<<Null, Null>>, <<Undefined, Undefined>>,
     <<Prop(EarlierCredentials, "token"), Prop(EarlierCredentials, "secret")>>}
    \cup {<<Prop(PayloadOf(out), "token"), Prop(PayloadOf(out), "secret")>> :
             out \in {o \in LoginOutcomes : o.kind = "json"}}

\* C19: with logins in flight at the same time, in every state the in-memory
\* (token, secret) pair and the persisted pair each come whole from one login
\* answer (never the token of one and the secret of another), and the answer
\* processed last, whichever login it belongs to, decides the session.
C19_ConcurrentLoginsNotTorn ==
    /\ [](/\ <<token, secret>> \in WholePairs
          /\ <<Prop(storedCredentials, "token"),
               Prop(storedCredentials, "secret")>> \in WholePairs)
    /\ [][\A id \in 1..Len(calls), out \in LoginOutcomes, ok \in BOOLEAN :
             (/\ CarriesSession(out)
              /\ \E j \in 1..Len(calls) : j # id /\ calls[j].op = "login"
              /\ LoginRespond(id, out, ok))
                => /\ token' = Prop(PayloadOf(out), "token")
                   /\ secret' = Prop(PayloadOf(out), "secret")
                   /\ ok => StoredHolds(Prop(PayloadOf(out), "token"),
                                        Prop(PayloadOf(out), "secret"),
                                        Prop(PayloadOf(out), "userid"))']_vars

\* two logins were in flight together and both succeeded: the one sent
\* first was answered last and its session is in memory, the other's is the
\* record in storage
C19_Witness ==
    /\ Len(calls) = 2
    /\ \A i \in 1..2 : calls[i].op = "login" /\ calls[i].status = "done"
    /\ returned.call = 1
    /\ returned.result.success
    /\ token = StrV("T1") /\ secret = StrV("S1")
    /\ StoredHolds(StrV("T2"), StrV("S2"), StrV("U2"))

\* a step changes the session or the persisted credentials
SessionChanges ==
    \/ token' # token
    \/ secret' # secret
    \/ authTime' # authTime
    \/ localStorage' # localStorage

\* C20: only login and logout change token, secret, authTime or the
\* persisted credentials: a step that changes one of them is the return of
\* a login or a logout, and is neither the sending of a data-fetch or
\* control request nor the return of one.
C20_OnlyLoginLogoutChangeSession ==
    [][SessionChanges
          => /\ \/ \E ok \in BOOLEAN : Logout(ok)
                \/ \E id \in 1..Len(calls), out \in LoginOutcomes, ok \in BOOLEAN :
                      LoginRespond(id, out, ok)
             /\ ~StartsRequest
             /\ \A id \in 1..Len(calls), out \in RequestOutcomes :
                   ~RequestRespond(id, out)]_vars

\* a control command has been sent and answered and the session of the
\* earlier run is in memory and in storage as it was
C20_Witness ==
    /\ Returned("request")
    /\ calls[returned.call].method = "controlDevice"
    /\ returned.result.success
    /\ token = StrV("T1") /\ secret = StrV("S1") /\ authTime = NumV(0)
    /\ localStorage["api_credentials"] = EarlierCredentials

\* ---------------------------------------------------------------- C21..C30
\* the last call to return was a login that succeeded, its session is the
\* one in memory, and the store holds nothing but the record of that login
\* (or nothing, the write having failed)
JustLoggedInFromEmpty ==
    /\ Returned("login")
    /\ returned.result.success
    /\ token = Prop(returned.result.data, "token")
    /\ secret = Prop(returned.result.data, "secret")
    /\ authTime # Null
    /\ localStorage["api_credentials"]
          \in {NoItem,
               ObjV(JSONRoundTrip(credentialsRecord(returned.result.data,
                                                    calls[returned.call].email,
                                                    authTime.v).f))}

\* C22 (as claimed): from an empty session store, a successful login
\* followed at once by logout leaves the in-memory session and the persisted
\* credentials record empty, as before the login.
C22_LoginLogoutRoundTrip ==
    [][\A ok \in BOOLEAN :
          (JustLoggedInFromEmpty /\ Logout(ok))
             => /\ token' = Null /\ secret' = Null /\ authTime' = Null
                /\ localStorage'["api_credentials"] = NoItem]_vars

\* C22 (amended): such a logout leaves the in-memory session empty; the
\* persisted record is removed when the removal succeeds and stays as the
\* login left it when the removal fails.
C22_LoginLogoutRoundTripBestEffort ==
    [][\A ok \in BOOLEAN :
          (JustLoggedInFromEmpty /\ Logout(ok))
             => /\ token' = Null /\ secret' = Null /\ authTime' = Null
                /\ localStorage'["api_credentials"]
                      = IF ok THEN NoItem ELSE localStorage["api_credentials"]]_vars

\* a login succeeded on an empty store and the logout that followed has
\* emptied memory and store
C22_Witness ==
    /\ Returned("login")
    /\ returned.result.success
    /\ Len(calls) = 1
    /\ token = Null /\ secret = Null /\ authTime = Null
    /\ localStorage["api_credentials"] = NoItem

\* a field of a session, null and undefined (and a missing property) being
\* the same absence
Held(v) == IF Present(v) THEN v ELSE Null

\* no call is in flight
Quiescent == \A i \in 1..Len(calls) : calls[i].status = "done"

\* the persisted record and the memory hold the same token and secret
StoreMatchesMemory ==
    /\ Held(Prop(storedCredentials, "token")) = Held(token)
    /\ Held(Prop(storedCredentials, "secret")) = Held(secret)

StaleLoginCanAuthenticate ==
    \E id \in 1..Len(calls), out \in LoginOutcomes, ok \in BOOLEAN :
       /\ Pending(id, "login")
       /\ ENABLED (LoginRespond(id, out, ok) /\ isAuthenticated')

\* C26 (as claimed): after logout() returns, isAuthenticated() stays false
\* until a login started after that logout succeeds: when logout returns,
\* no login that is still in flight can re-create the session with its
\* answer.
C26_LogoutOutlivesLoginsInFlight ==
    [][\A ok \in BOOLEAN :
          Logout(ok) => (~isAuthenticated' /\ ~StaleLoginCanAuthenticate')]_vars

\* the device whose getDeviceLastData is call id
DeviceOf(id) ==
    tasks[CHOOSE i \in 1..Len(tasks) : id \in DOMAIN tasks[i].batch].batch[id]

\* the batch that call id belongs to has no call left in flight
BatchSettled(id) ==
    \A j \in DOMAIN tasks[CHOOSE i \in 1..Len(tasks) :
                             id \in DOMAIN tasks[i].batch].batch :
       calls[j].status = "done"

\* the refresh that call id belongs to has ended
RefreshEnded(id) ==
    tasks[CHOOSE i \in 1..Len(tasks) : id \in DOMAIN tasks[i].batch].phase = "done"

\* C21 (as claimed): in the fan-out batch every device whose call succeeds
\* has its data stored under its own serial number, whatever the order of
\* the answers.
C21_FanOutStoresEachSuccess ==
    [][\A id \in 1..Len(calls) : \A out \in DeviceOutcomes(id) :
          (DeviceReturns(id, out) /\ requestResult(out).success)
             => Get(lastDataCache', ToStr(DeviceOf(id).sn)) = requestResult(out).data]_vars

\* C21 (amended): a call of the batch that succeeds with data has that data
\* stored under its own serial number and leaves the entries of the other
\* devices alone; a call that fails, or succeeds without data, leaves the
\* whole cache as it was; and the batch completes, ending the refresh, as
\* soon as its last call has returned, failed or not.
C21_FanOutStoresEachSuccessWithData ==
    [][\A id \in 1..Len(calls) : \A out \in DeviceOutcomes(id) :
          DeviceReturns(id, out)
             => LET response == requestResult(out)
                    sn == ToStr(DeviceOf(id).sn)
                IN /\ IF response.success /\ Truthy(response.data)
                      THEN /\ Get(lastDataCache', sn) = response.data
                           /\ \A k \in DOMAIN lastDataCache \ {sn} :
                                 Get(lastDataCache', k) = lastDataCache[k]
                      ELSE lastDataCache' = lastDataCache
                   /\ BatchSettled(id)' <=> RefreshEnded(id)']_vars

\* a batch has completed in which the second device answered first and was
\* stored, and the first device answered last with a failure
C21_Witness ==
    /\ returned.call = 2
    /\ ~returned.result.success
    /\ tasks[1].phase = "done"
    /\ DOMAIN lastDataCache = {"SN2"}
    /\ lastDataCache["SN2"] = Reading(3)

\* C29 (as claimed): when two refreshes overlap, a late answer to the
\* request of the earlier refresh never overwrites the data a later-issued
\* request has stored for the device.
C29_LateAnswerKeepsNewerData ==
    [][\A id \in 1..Len(calls) : \A out \in DeviceOutcomes(id) :
          LET sn == ToStr(DeviceOf(id).sn) IN
          (/\ DeviceReturns(id, out)
           /\ sn \in DOMAIN lastDataCache
           /\ Prop(lastDataCache[sn], "reading").v > id)
             => lastDataCache'[sn] = lastDataCache[sn]]_vars

\* a timer, if there is one, has a period of 10 to 300 seconds
PeriodInRange(timer) ==
    \/ timer = Null
    \/ /\ timer.period >= MinRefreshSeconds * 1000
       /\ timer.period <= MaxRefreshSeconds * 1000

\* C23 (as claimed): the period of the auto-refresh timer is always between
\* 10 and 300 seconds: saveGeneralSettings stores nothing when the value is
\* outside that range, and no step leaves a timer with a period outside it,
\* whatever value was found in storage.
C23_PeriodWithinLimits ==
    [][/\ PeriodInRange(autoRefreshTimer')
       /\ \A text \in IntervalInputs, ok \in BOOLEAN :
             (/\ SaveGeneralSettings(text, ok)
              /\ intervalRejected(OrElse(parseInt(text), NumV(DefaultRefreshSeconds))))
                => localStorage' = localStorage]_vars

\* C24 (as claimed): when the page becomes hidden the timer is stopped, and
\* when it becomes visible again with the dashboard selected in the main
\* view (auto-refresh enabled) the timer is started again.
C24_VisibilityPausesAndResumes ==
    [][VisibilityChange
          => IF hidden'
             THEN autoRefreshTimer' = Null
             ELSE (currentView = "main" /\ autoRefreshEnabled)
                     => autoRefreshTimer' # Null]_vars

\* the base URL found in storage, if any
storedBaseURL == getLocalStorage("settings_api_base_url", Undefined)

\* C25 (as claimed): saveAPISettings makes a valid URL the base URL and
\* leaves the base URL alone when the URL is invalid, and after a restart
\* the base URL is the one that was saved.
C25_SavedBaseURLSurvivesRestart ==
    [][/\ \A u \in UrlInputs, ok \in BOOLEAN :
             SaveAPISettings(u, ok)
                => baseURL' = IF urlThrows(u) THEN baseURL ELSE normalizedURL(u)
       /\ (Reload /\ storedBaseURL # Undefined)
             => baseURL' = storedBaseURL.v]_vars

\* C27 (as claimed): while the login view is shown, before a login or after
\* a logout, no auto-refresh timer is running, also when a Dashboard.init
\* was still awaiting its first refresh at the moment of the logout.
C27_NoTimerAfterLogout == currentView = "login" => autoRefreshTimer = Null

\* the refresh interval found in storage, if any
storedInterval == getLocalStorage("settings_refresh_interval", Undefined)

\* C30 (as claimed): once saveGeneralSettings has stored an interval, every
\* timer started afterwards runs with the stored interval, whether or not a
\* timer was running when the setting was saved.
C30_TimersUseSavedInterval ==
    [][(/\ autoRefreshTimer' # Null
        /\ autoRefreshTimer' # autoRefreshTimer
        /\ storedInterval' # Undefined)
          => autoRefreshTimer'.period = storedInterval'.v * 1000]_vars

====
